---- MODULE Spec2Model ----
(***************************************************************************)
(* Model of yomotsu/image-transition (src/src/shader.ts and the built      *)
(* src/dist/image-transition.module.js): the ImageTransition controller    *)
(* with its enter/leave/stop/reset/destroy state machine, the              *)
(* requestAnimationFrame callback queue that drives the tick closures and  *)
(* the deferred re-render, the canvas resize path, the three Texture       *)
(* objects with their deferred image loading, and the EventDispatcher.     *)
(*                                                                         *)
(* Representation.  Time (performance.now()) is an integer number of       *)
(* milliseconds.  _progress is a real in [0,1]; the model stores it        *)
(* multiplied by duration, i.e. `progress` is the integer                  *)
(* _progress * duration in 0..Duration, so "_progress === 1" reads         *)
(* progress = Duration and "duration * _progress" reads progress.          *)
(* Arithmetic is exact (no floating point rounding).  The clock does not   *)
(* advance inside one handler: the two performance.now() reads of enter()  *)
(* and of its synchronous first tick return the same value.  A quotient    *)
(* a / b of the aspect computation is the pair <<a, b>>; 0 / 0, which is   *)
(* NaN in the code, is the pair <<0, 0>>.                                  *)
(*                                                                         *)
(* The specifications share the variables: Spec (the animation state       *)
(* machine of a controller built without images), SpecTex (construction,   *)
(* image sources, loading and resizing), SpecEv (the EventDispatcher),     *)
(* SpecUpd (animation together with texture updates), SpecLive (animations *)
(* left to run under fair frames), SpecRe (a transitionEnd listener that   *)
(* calls the controller back) and SpecPow (convertPowerOfTwo).             *)
(***************************************************************************)
EXTENDS Integers, Sequences, FiniteSets, TLC

\* default of the `duration` parameter, src/src/shader.ts:203
Duration == 2000
\* granularity of the clock of the model: half the duration, so that progress
\* takes the values 0, 1/2 and 1
Quantum == Duration \div 2

\* bounds of the model
MaxSteps == 3      \* the clock stops after MaxSteps quanta
MaxQueue == 3      \* callbacks pending in requestAnimationFrame
MaxLoadListeners == 2  \* 'load' listeners registered on one image element
MaxDim == 10       \* widths and heights given to convertPowerOfTwo

\* canvas widths and heights: 1 (what destroy( true ) sets) and another one
Sizes == {1, 2}

\* the image sources of the model: two HTMLImageElement, which are loaded
\* or not, and one HTMLCanvasElement; None is an unset source (undefined)
ImageElements == {"imgA", "imgB"}
CanvasElements == {"cnvK"}
None == "none"
Sources == ImageElements \cup CanvasElements \cup {None}

\* naturalWidth and naturalHeight of a loaded image element, width and
\* height of a canvas element
PixelSize(image) ==
  IF image = "imgA" THEN <<16, 9>>
  ELSE IF image = "imgB" THEN <<1, 2>>
  ELSE <<2, 2>>

TextureNames == {"from", "to", "displacement"}

VARIABLES
  progress,     \* _progress * duration
  isEntering,   \* _isEntering
  isLeaving,    \* _isLeaving
  hasUpdated,   \* _hasUpdated
  destroyed,    \* _destroyed
  canvas,       \* <<_canvas.width, _canvas.height>>
  now,          \* performance.now()
  rafQueue,     \* callbacks registered with requestAnimationFrame for the next frame
  frame,        \* callbacks of the frame being run, not yet called
  lastOp,       \* the operation or callback that made the last step
  lastCb,       \* the callback run by the last step (NoCb when it was a public call)
  dispatched,   \* transitionEnd events dispatched by the last step
  rendered,     \* draws issued by the last step
  scheduled,    \* requestAnimationFrame calls made by the last step
  ticksRun,     \* tick bodies run past their guards by the last step
  anim,         \* the last effective enter()/leave(): kind, time, progress, flip
  phase,        \* "unbuilt", then "live" or the error the constructor threw
  config,       \* whether the constructor got a canvas, and its displacementSource
  tex,          \* per texture: its `image` and the pixels its GPU texture holds
  loaded,       \* the image elements whose naturalWidth is not 0
  loadListeners,\* per image element, the textures whose onLoad closure listens
  uniforms,     \* disableFromImage, disableToImage and uvScale of the program
  gpu,          \* what the last step did: see ZeroGpu
  endListener,  \* what the transitionEnd listener calls: "none", "enter", "leave"
  heard,        \* what the transitionEnd listener of the last step saw and left
  conv,         \* an argument of convertPowerOfTwo and what it returned
  evListeners,  \* EventDispatcher._listeners
  evCalled,     \* the listeners the last dispatchEvent invoked, in order
  evOp,         \* the last EventDispatcher call
  evFirst,      \* per type, the listeners in the order they were first registered
  evRepeated,   \* per type, the listeners registered again since they were added
  evOrder       \* per type, the registered listeners, oldest registration first

ctlVars == << progress, isEntering, isLeaving, hasUpdated, destroyed, canvas, now,
              rafQueue, frame, lastOp, lastCb, dispatched, rendered, scheduled,
              ticksRun, anim, phase, config, tex, loaded, loadListeners, uniforms, gpu,
              endListener, heard, conv >>

evVars == << evListeners, evCalled, evOp, evFirst, evRepeated, evOrder >>

vars == << ctlVars, evVars >>

NoCb == [kind |-> "none", startTime |-> 0, startElapsedTime |-> 0, p0 |-> 0]
RenderCb == [kind |-> "render", startTime |-> 0, startElapsedTime |-> 0, p0 |-> 0]
NoAnim == [kind |-> "none", t0 |-> 0, p0 |-> 0, flip |-> FALSE]

\* what a step did to the GPU and to the textures' listeners:
\*   viewports       gl.viewport calls
\*   uvPushes        gl.uniform2f( uvScale ) calls
\*   updateTextures  runs of _updateTexture
\*   updated         'updated' events dispatched by textures
\*   uploads         gl.texImage2D calls
\*   deadCalls       gl calls made on a texture handle after gl.deleteTexture
\*   setImages       per texture, the calls of its setImage
ZeroGpu == [viewports |-> 0, uvPushes |-> 0, updateTextures |-> 0, updated |-> 0,
            uploads |-> 0, deadCalls |-> 0,
            setImages |-> [n \in TextureNames |-> 0]]

\* what the transitionEnd listener saw:
\*   invoked  it was called in this step
\*   flags    <<_isEntering, _isLeaving>> when it was called
\*   called   its enter() or leave() call was effective
\*   left     <<_isEntering, _isLeaving, progress>> when it returned
NoHeard == [invoked |-> FALSE, flags |-> <<FALSE, FALSE>>, called |-> FALSE,
            left |-> <<FALSE, FALSE, 0>>]

\* The controller as a record, so that a method that calls other methods is
\* the composition of their operators.
Self ==
  [ progress |-> progress, isEntering |-> isEntering, isLeaving |-> isLeaving,
    hasUpdated |-> hasUpdated, destroyed |-> destroyed, canvas |-> canvas,
    rafQueue |-> rafQueue,
    dispatched |-> 0, rendered |-> 0, scheduled |-> 0, ticksRun |-> 0,
    tex |-> tex, loaded |-> loaded, loadListeners |-> loadListeners,
    uniforms |-> uniforms, gpu |-> ZeroGpu, listening |-> TRUE,
    listener |-> endListener, clock |-> now, heard |-> NoHeard ]

Min(a, b) == IF a < b THEN a ELSE b
Max(a, b) == IF a > b THEN a ELSE b

clampNoMax(num, min, max) == Max(num, min)
clamp(num, min, max) == Min(Max(num, min), max)

requestAnimationFrame(s, cb) ==
  [s EXCEPT !.rafQueue = Append(@, cb), !.scheduled = @ + 1]

RECURSIVE enter(_, _)
RECURSIVE leave(_, _)

\* this.dispatchEvent( { type: 'transitionEnd' } ): the listener runs inside
\* the dispatching handler and may call enter() or leave() of the controller
dispatchTransitionEnd(s) ==
  LET s1 == [s EXCEPT !.dispatched = @ + 1]
      s2 == IF s.listener = "enter" THEN enter(s1, s.clock)
            ELSE IF s.listener = "leave" THEN leave(s1, s.clock)
            ELSE s1
  IN  [s2 EXCEPT !.heard = [invoked |-> TRUE,
                            flags |-> <<s.isEntering, s.isLeaving>>,
                            called |-> (s2.isEntering # s1.isEntering
                                        \/ s2.isLeaving # s1.isLeaving),
                            left |-> <<s2.isEntering, s2.isLeaving, s2.progress>>]]

render(s) ==
  IF s.destroyed THEN s
  ELSE [s EXCEPT !.rendered = @ + 1,
                 !.hasUpdated = IF s.progress = Duration THEN FALSE ELSE @]

enterTickAfterDestroy(s, cb, t) ==
  IF ~s.isEntering THEN s
  ELSE LET elapsedTime == t - cb.startTime + cb.startElapsedTime
           s1 == [s EXCEPT !.progress = clamp(elapsedTime, 0, Duration),
                           !.ticksRun = @ + 1]
           s2 == render(s1)
           s3 == IF s2.progress = Duration
                 THEN dispatchTransitionEnd([s2 EXCEPT !.isEntering = FALSE])
                 ELSE s2
       IN  requestAnimationFrame(s3, cb)

enterTickNeverEnds(s, cb, t) ==
  IF s.destroyed THEN s
  ELSE IF ~s.isEntering THEN s
  ELSE LET elapsedTime == t - cb.startTime + cb.startElapsedTime
           s1 == [s EXCEPT !.progress = clamp(elapsedTime, 0, Duration),
                           !.ticksRun = @ + 1]
       IN  requestAnimationFrame(render(s1), cb)

\* the tick closure of enter(): cb holds its captured startTime and
\* startElapsedTime, t is performance.now()
enterTick(s, cb, t) ==
  IF s.destroyed THEN s
  ELSE IF ~s.isEntering THEN s
  ELSE LET elapsedTime == t - cb.startTime + cb.startElapsedTime
           s1 == [s EXCEPT !.progress = clamp(elapsedTime, 0, Duration),
                           !.ticksRun = @ + 1]
           s2 == render(s1)
           s3 == IF s2.progress = Duration
                 THEN dispatchTransitionEnd([s2 EXCEPT !.isEntering = FALSE])
                 ELSE s2
       IN  requestAnimationFrame(s3, cb)

leaveTickFromOne(s, cb, t) ==
  IF s.destroyed THEN s
  ELSE IF ~s.isLeaving THEN s
  ELSE LET elapsedTime == t - cb.startTime
           s1 == [s EXCEPT !.progress = clamp(Duration - elapsedTime, 0, Duration),
                           !.ticksRun = @ + 1]
           s2 == render(s1)
           s3 == IF s2.progress = 0
                 THEN dispatchTransitionEnd([s2 EXCEPT !.isLeaving = FALSE])
                 ELSE s2
       IN  requestAnimationFrame(s3, cb)

leaveTick(s, cb, t) ==
  IF s.destroyed THEN s
  ELSE IF ~s.isLeaving THEN s
  ELSE LET elapsedTime == t - cb.startTime + cb.startElapsedTime
           s1 == [s EXCEPT !.progress = clamp(Duration - elapsedTime, 0, Duration),
                           !.ticksRun = @ + 1]
           s2 == render(s1)
           s3 == IF s2.progress = 0
                 THEN dispatchTransitionEnd([s2 EXCEPT !.isLeaving = FALSE])
                 ELSE s2
       IN  requestAnimationFrame(s3, cb)

enterKeepsLeaving(s, t) ==
  IF s.isEntering THEN s
  ELSE IF s.progress = Duration THEN s
  ELSE LET s1 == [s EXCEPT !.isEntering = TRUE]
           tick == [kind |-> "enter", startTime |-> t,
                    startElapsedTime |-> s.progress, p0 |-> s.progress]
       IN  enterTick(s1, tick, t)

enterAtOne(s, t) ==
  IF s.isEntering THEN s
  ELSE LET s1 == [s EXCEPT !.isEntering = TRUE, !.isLeaving = FALSE]
           tick == [kind |-> "enter", startTime |-> t,
                    startElapsedTime |-> s.progress, p0 |-> s.progress]
       IN  enterTick(s1, tick, t)

enter(s, t) ==
  IF s.isEntering THEN s
  ELSE IF s.progress = Duration THEN s
  ELSE LET s1 == [s EXCEPT !.isEntering = TRUE, !.isLeaving = FALSE]
           tick == [kind |-> "enter", startTime |-> t,
                    startElapsedTime |-> s.progress, p0 |-> s.progress]
       IN  enterTick(s1, tick, t)

leave(s, t) ==
  IF s.isLeaving THEN s
  ELSE IF s.progress = 0 THEN s
  ELSE LET s1 == [s EXCEPT !.isLeaving = TRUE, !.isEntering = FALSE]
           tick == [kind |-> "leave", startTime |-> t,
                    startElapsedTime |-> Duration - s.progress, p0 |-> s.progress]
       IN  leaveTick(s1, tick, t)

stopAlwaysDispatches(s) ==
  dispatchTransitionEnd([s EXCEPT !.isEntering = FALSE, !.isLeaving = FALSE])

stopClearsEnteringOnly(s) ==
  IF ~s.isEntering /\ ~s.isLeaving THEN s
  ELSE dispatchTransitionEnd([s EXCEPT !.isEntering = FALSE])

stop(s) ==
  IF ~s.isEntering /\ ~s.isLeaving THEN s
  ELSE dispatchTransitionEnd([s EXCEPT !.isEntering = FALSE, !.isLeaving = FALSE])

resetWithoutStop(s) == render([s EXCEPT !.progress = 0])

reset(s) == render([stop(s) EXCEPT !.progress = 0])

\* the callback _onUpdate registers
deferredRender(s) == [render(s) EXCEPT !.hasUpdated = FALSE]

onUpdateWhileActive(s) ==
  IF s.hasUpdated THEN s
  ELSE requestAnimationFrame([s EXCEPT !.hasUpdated = TRUE], RenderCb)

onUpdate(s) ==
  IF s.isEntering \/ s.isLeaving THEN s
  ELSE IF s.hasUpdated THEN s
  ELSE requestAnimationFrame([s EXCEPT !.hasUpdated = TRUE], RenderCb)

\* quotients as pairs <<numerator, denominator>> in lowest terms
RECURSIVE GCD(_, _)
GCD(a, b) == IF b = 0 THEN a ELSE GCD(b, a % b)

NaN == <<0, 0>>
One == <<1, 1>>
IsNaN(q) == q[1] = 0 /\ q[2] = 0
Quotient(a, b) ==
  IF a = 0 /\ b = 0 THEN NaN ELSE <<a \div GCD(a, b), b \div GCD(a, b)>>
\* q < 1.0, which is false when q is NaN
LessThanOne(q) == ~IsNaN(q) /\ q[1] < q[2]
\* 1 / q, which is NaN when q is NaN
Inverse(q) == <<q[2], q[1]>>

\* image.naturalWidth, image.naturalHeight of an image element (0 until it is
\* loaded); image.width, image.height of a canvas element
mediaSize(s, image) ==
  IF image \in ImageElements /\ image \notin s.loaded THEN <<0, 0>>
  ELSE PixelSize(image)

uvScaleFromTo(s) ==
  LET image == IF s.tex["to"].image # None THEN s.tex["to"].image
               ELSE s.tex["from"].image
      media == IF image = None THEN <<1, 1>> ELSE mediaSize(s, image)
      aspect == Quotient(media[1] * s.canvas[2], media[2] * s.canvas[1])
  IN  IF LessThanOne(aspect) THEN <<One, aspect>> ELSE <<Inverse(aspect), One>>

\* the two arguments _updateAspect gives to gl.uniform2f( uvScale, .. )
uvScale(s) ==
  LET image == IF s.tex["from"].image # None THEN s.tex["from"].image
               ELSE s.tex["to"].image
      media == IF image = None THEN <<1, 1>> ELSE mediaSize(s, image)
      \* mediaAspect / canvasAspect = ( mw / mh ) / ( cw / ch )
      aspect == Quotient(media[1] * s.canvas[2], media[2] * s.canvas[1])
  IN  IF LessThanOne(aspect) THEN <<One, aspect>> ELSE <<Inverse(aspect), One>>

updateAspect(s) ==
  onUpdate([s EXCEPT !.uniforms.uvScale = uvScale(s),
                     !.gpu.uvPushes = @ + 1])

setSizeUnguarded(s, w, h) ==
  updateAspect([s EXCEPT !.canvas = <<w, h>>, !.gpu.viewports = @ + 1])

setSize(s, w, h) ==
  IF s.canvas = <<w, h>> THEN s
  ELSE updateAspect([s EXCEPT !.canvas = <<w, h>>, !.gpu.viewports = @ + 1])

\* destroy() deletes the textures, the buffers, the shaders and the program
\* in the same call that sets _destroyed: a handle is deleted exactly when
\* s.destroyed is true
destroy(s, removeElement) ==
  LET s1 == [s EXCEPT !.destroyed = TRUE, !.isEntering = FALSE, !.isLeaving = FALSE]
  IN  IF removeElement THEN setSize(s1, 1, 1) ELSE s1

\* what requestAnimationFrame does with a callback when its frame comes
runCallback(s, cb, t) ==
  IF cb.kind = "enter" THEN enterTick(s, cb, t)
  ELSE IF cb.kind = "leave" THEN leaveTick(s, cb, t)
  ELSE deferredRender(s)

updateTextureFromOnly(s) ==
  updateAspect([s EXCEPT
    !.uniforms.disableFromImage = (s.tex["from"].image = None),
    !.uniforms.disableToImage = (s.tex["from"].image = None),
    !.gpu.updateTextures = @ + 1,
    !.gpu.deadCalls = IF s.destroyed THEN @ + 1 ELSE @])

\* _updateTexture binds the three texture handles and pushes the two flags
updateTexture(s) ==
  updateAspect([s EXCEPT
    !.uniforms.disableFromImage = (s.tex["from"].image = None),
    !.uniforms.disableToImage = (s.tex["to"].image = None),
    !.gpu.updateTextures = @ + 1,
    !.gpu.deadCalls = IF s.destroyed THEN @ + 1 ELSE @])

\* Texture.isLoaded
isLoaded(s, name) ==
  LET image == s.tex[name].image
  IN  IF image = None THEN FALSE
      ELSE IF image \in CanvasElements THEN TRUE
      ELSE image \in s.loaded

\* this.image.addEventListener( 'load', onLoad ): each call of Texture.onLoad
\* makes a new closure, so each call adds a listener
addLoadListener(s, name) ==
  [s EXCEPT !.loadListeners[s.tex[name].image] = Append(@, name)]

\* texture.dispatchEvent( { type: 'updated' } ); the controller listens from
\* line 277 of its constructor on
textureUpdated(s) ==
  LET s1 == [s EXCEPT !.gpu.updated = @ + 1]
  IN  IF s1.listening THEN updateTexture(s1) ELSE s1

setImageQuietWhileLoading(s, name, image) ==
  LET s1 == [s EXCEPT !.tex[name].image = image]
      ready == isLoaded(s1, name)
      s2 == IF image = None \/ ready THEN s1 ELSE addLoadListener(s1, name)
      s3 == [s2 EXCEPT
               !.tex[name].pixels = IF image # None /\ ready THEN image ELSE "defaultImage",
               !.gpu.uploads = @ + 1,
               !.gpu.setImages[name] = @ + 1,
               !.gpu.deadCalls = IF s.destroyed THEN @ + 1 ELSE @]
  IN  IF image = None \/ ready THEN textureUpdated(s3) ELSE s3

\* Texture.setImage.  Its call of this.onLoad() is made when isLoaded is
\* false and the image is set, where onLoad() registers the listener.
setImage(s, name, image) ==
  LET s1 == [s EXCEPT !.tex[name].image = image]
      ready == isLoaded(s1, name)
      s2 == IF image = None \/ ready THEN s1 ELSE addLoadListener(s1, name)
      s3 == [s2 EXCEPT
               !.tex[name].pixels = IF image # None /\ ready THEN image ELSE "defaultImage",
               !.gpu.uploads = @ + 1,
               !.gpu.setImages[name] = @ + 1,
               !.gpu.deadCalls = IF s.destroyed THEN @ + 1 ELSE @]
  IN  textureUpdated(s3)

\* Texture.onLoad
textureOnLoad(s, name) ==
  IF s.tex[name].image = None THEN s
  ELSE IF isLoaded(s, name) THEN setImage(s, name, s.tex[name].image)
  ELSE addLoadListener(s, name)

\* new Texture( gl, image ): a 1x1 black texture first
newTexture(s, name, image) ==
  LET s1 == [s EXCEPT !.tex[name] = [image |-> image, pixels |-> "black"],
                      !.gpu.uploads = @ + 1]
  IN  IF image # None THEN textureOnLoad(s1, name) ELSE setImage(s1, name, None)

\* the sequence ls without its first occurrence of x
RECURSIVE RemoveFirst(_, _)
RemoveFirst(ls, x) ==
  IF ls = <<>> THEN <<>>
  ELSE IF Head(ls) = x THEN Tail(ls)
  ELSE <<Head(ls)>> \o RemoveFirst(Tail(ls), x)

onLoadClosureOfElement(s, name, image) ==
  IF s.tex[name].image = None THEN s
  ELSE textureUpdated([s EXCEPT
         !.loadListeners[image] = RemoveFirst(@, name),
         !.tex[name].pixels = image,
         !.gpu.uploads = @ + 1,
         !.gpu.setImages[name] = @ + 1])

\* the closure onLoad of Texture.onLoad, registered by texture `name` on the
\* element `image`, called when `image` fires 'load'.  It reads this.image,
\* the texture's image at the time of the call.
onLoadClosure(s, name, image) ==
  LET current == s.tex[name].image
  IN  IF current = None THEN s
      ELSE LET s1 == IF current = image
                     THEN [s EXCEPT !.loadListeners[image] = RemoveFirst(@, name)]
                     ELSE s
           IN  setImage(s1, name, current)

\* the element calls the listeners it had when the event was fired
RECURSIVE callLoadListeners(_, _, _)
callLoadListeners(s, image, ls) ==
  IF ls = <<>> THEN s
  ELSE callLoadListeners(onLoadClosure(s, Head(ls), image), image, Tail(ls))

\* the image element finishes loading and fires 'load'
load(s, image) ==
  callLoadListeners([s EXCEPT !.loaded = @ \cup {image}], image,
                    s.loadListeners[image])

setFromImage(s, sourceFrom) == setImage(s, "from", sourceFrom)

setToImage(s, sourceTo) == setImage(s, "to", sourceTo)

NoTexture == [image |-> None, pixels |-> "none"]
NoUniforms == [disableFromImage |-> FALSE, disableToImage |-> FALSE, uvScale |-> <<One, One>>]

\* new ImageTransition( { canvas, sourceFrom, sourceTo, displacementSource } )
\* for a canvas of w x h pixels
constructor(w, h, sourceFrom, sourceTo, displacementSource) ==
  LET s0 == [ progress |-> 0, isEntering |-> FALSE, isLeaving |-> FALSE,
              hasUpdated |-> TRUE, destroyed |-> FALSE, canvas |-> <<w, h>>,
              rafQueue |-> <<>>,
              dispatched |-> 0, rendered |-> 0, scheduled |-> 0, ticksRun |-> 0,
              tex |-> [n \in TextureNames |-> NoTexture],
              loaded |-> loaded, loadListeners |-> loadListeners,
              uniforms |-> NoUniforms, gpu |-> ZeroGpu, listening |-> FALSE,
              listener |-> endListener, clock |-> now, heard |-> NoHeard ]
      s1 == newTexture(s0, "from", sourceFrom)
      s2 == newTexture(s1, "to", sourceTo)
      s3 == newTexture(s2, "displacement", displacementSource)
      s4 == updateTexture([s3 EXCEPT !.listening = TRUE])
  IN  setSize(s4, w, h)

\* EventDispatcher: _listeners[ type ] is undefined or an array
Undefined == "undefined"
EvTypes == {"updated", "transitionEnd"}
Listeners == {"f", "g"}

\* array.indexOf( x ) !== -1
Includes(array, x) == \E i \in 1..Len(array) : array[i] = x

addEventListenerAlways(ls, type, listener) ==
  LET array == IF ls[type] = Undefined THEN <<>> ELSE ls[type]
  IN  [ls EXCEPT ![type] = Append(array, listener)]

addEventListenerFirst(ls, type, listener) ==
  LET array == IF ls[type] = Undefined THEN <<>> ELSE ls[type]
  IN  [ls EXCEPT ![type] = IF Includes(array, listener) THEN array
                           ELSE <<listener>> \o array]

addEventListener(ls, type, listener) ==
  LET array == IF ls[type] = Undefined THEN <<>> ELSE ls[type]
  IN  [ls EXCEPT ![type] = IF Includes(array, listener) THEN array
                           ELSE Append(array, listener)]

\* listenerArray.splice( listenerArray.indexOf( listener ), 1 )
removeEventListener(ls, type, listener) ==
  IF ls[type] = Undefined THEN ls
  ELSE [ls EXCEPT ![type] = RemoveFirst(@, listener)]

\* the listeners dispatchEvent calls, in the order it calls them: a copy of
\* the array taken before the first call
dispatchEvent(ls, type) ==
  IF ls[type] = Undefined THEN <<>> ELSE ls[type]

----------------------------------------------------------------------------
\* convertPowerOfTwo was not called
NoConv == [kind |-> "none", width |-> 0, height |-> 0, max |-> 0,
           result |-> [kind |-> "none", width |-> 0, height |-> 0]]

Fits(s) ==
  /\ Len(s.rafQueue) + Len(frame) <= MaxQueue
  /\ \A image \in ImageElements : Len(s.loadListeners[image]) <= MaxLoadListeners

Apply(s) ==
  /\ progress' = s.progress
  /\ isEntering' = s.isEntering
  /\ isLeaving' = s.isLeaving
  /\ hasUpdated' = s.hasUpdated
  /\ destroyed' = s.destroyed
  /\ canvas' = s.canvas
  /\ rafQueue' = s.rafQueue
  /\ dispatched' = s.dispatched
  /\ rendered' = s.rendered
  /\ scheduled' = s.scheduled
  /\ ticksRun' = s.ticksRun
  /\ tex' = s.tex
  /\ loaded' = s.loaded
  /\ loadListeners' = s.loadListeners
  /\ uniforms' = s.uniforms
  /\ gpu' = s.gpu
  /\ heard' = s.heard

\* a call is made on a controller the constructor returned, between frames,
\* never inside one
Call(op, s) ==
  /\ phase = "live"
  /\ frame = <<>>
  /\ Fits(s)
  /\ Apply(s)
  /\ lastOp' = op
  /\ lastCb' = NoCb
  /\ UNCHANGED << now, frame, phase, config, endListener, conv, evVars >>

NoListeners == [type \in EvTypes |-> Undefined]

\* a new EventDispatcher nobody has called yet
InitEvents ==
  /\ evListeners = NoListeners
  /\ evCalled = <<>>
  /\ evOp = [op |-> "new", type |-> "updated", listener |-> "f"]
  /\ evFirst = [type \in EvTypes |-> <<>>]
  /\ evRepeated = [type \in EvTypes |-> {}]
  /\ evOrder = [type \in EvTypes |-> <<>>]

\* the document before any image element has been given to a controller
InitDocument ==
  /\ now = 0
  /\ frame = <<>>
  /\ lastOp = "new"
  /\ lastCb = NoCb
  /\ anim = NoAnim
  /\ loadListeners = [image \in ImageElements |-> <<>>]

\* the variables hold the controller s
Holds(s) ==
  /\ progress = s.progress
  /\ isEntering = s.isEntering
  /\ isLeaving = s.isLeaving
  /\ hasUpdated = s.hasUpdated
  /\ destroyed = s.destroyed
  /\ canvas = s.canvas
  /\ rafQueue = s.rafQueue
  /\ dispatched = s.dispatched
  /\ rendered = s.rendered
  /\ scheduled = s.scheduled
  /\ ticksRun = s.ticksRun
  /\ tex = s.tex
  /\ uniforms = s.uniforms
  /\ gpu = s.gpu
  /\ heard = s.heard

\* a controller constructed on a canvas, without images
Init ==
  /\ InitDocument
  /\ InitEvents
  /\ loaded = {}
  /\ phase = "live"
  /\ endListener = "none"
  /\ conv = NoConv
  /\ config = [canvas |-> TRUE, displacementSource |-> None]
  /\ \E w \in Sizes, h \in Sizes : Holds(constructor(w, h, None, None, None))

Enter ==
  /\ Call("enter", enter(Self, now))
  /\ anim' = IF isEntering \/ progress = Duration THEN anim
             ELSE [kind |-> "enter", t0 |-> now, p0 |-> progress, flip |-> isLeaving]

Leave ==
  /\ Call("leave", leave(Self, now))
  /\ anim' = IF isLeaving \/ progress = 0 THEN anim
             ELSE [kind |-> "leave", t0 |-> now, p0 |-> progress, flip |-> isEntering]

Stop ==
  /\ Call("stop", stop(Self))
  /\ anim' = NoAnim

Reset ==
  /\ Call("reset", reset(Self))
  /\ anim' = NoAnim

Render ==
  /\ Call("render", render(Self))
  /\ UNCHANGED anim

SetSize ==
  \E w \in Sizes, h \in Sizes :
    /\ Call("setSize", setSize(Self, w, h))
    /\ UNCHANGED anim

Destroy ==
  \E removeElement \in BOOLEAN :
    /\ Call("destroy", destroy(Self, removeElement))
    /\ anim' = NoAnim

\* a step that is no call of the controller resets what the last step did
NoCall(op) ==
  /\ lastOp' = op
  /\ lastCb' = NoCb
  /\ dispatched' = 0
  /\ rendered' = 0
  /\ scheduled' = 0
  /\ ticksRun' = 0
  /\ gpu' = ZeroGpu
  /\ heard' = NoHeard
  /\ UNCHANGED << progress, isEntering, isLeaving, hasUpdated, destroyed, canvas,
                  anim, phase, config, tex, loaded, loadListeners, uniforms,
                  endListener, conv, evVars >>

\* time passes between handlers
Advance ==
  /\ frame = <<>>
  /\ now + Quantum <= MaxSteps * Quantum
  /\ now' = now + Quantum
  /\ NoCall("advance")
  /\ UNCHANGED << rafQueue, frame >>

\* the browser starts a frame: the callbacks registered so far are the ones
\* it will call; callbacks registered while it runs wait for the next frame
BeginFrame ==
  /\ frame = <<>>
  /\ rafQueue # <<>>
  /\ frame' = rafQueue
  /\ rafQueue' = <<>>
  /\ NoCall("frame")
  /\ UNCHANGED now

RunCallback ==
  /\ frame # <<>>
  /\ Apply(runCallback(Self, Head(frame), now))
  /\ frame' = Tail(frame)
  /\ lastOp' = "callback"
  /\ lastCb' = Head(frame)
  /\ UNCHANGED << now, anim, phase, config, endListener, conv, evVars >>

Next ==
  \/ Enter
  \/ Leave
  \/ Stop
  \/ Reset
  \/ Render
  \/ SetSize
  \/ Destroy
  \/ Advance
  \/ BeginFrame
  \/ RunCallback

Spec == Init /\ [][Next]_vars

----------------------------------------------------------------------------
\* Construction, image sources and loading.

\* before the constructor is called: the image elements are loaded or not,
\* and the variables of the controller hold placeholders
InitTex ==
  /\ InitDocument
  /\ InitEvents
  /\ loaded \in SUBSET ImageElements
  /\ phase = "unbuilt"
  /\ endListener = "none"
  /\ conv = NoConv
  /\ heard = NoHeard
  /\ config = [canvas |-> TRUE, displacementSource |-> None]
  /\ progress = 0
  /\ isEntering = FALSE
  /\ isLeaving = FALSE
  /\ hasUpdated = TRUE
  /\ destroyed = FALSE
  /\ canvas = <<1, 1>>
  /\ rafQueue = <<>>
  /\ dispatched = 0
  /\ rendered = 0
  /\ scheduled = 0
  /\ ticksRun = 0
  /\ tex = [n \in TextureNames |-> NoTexture]
  /\ uniforms = NoUniforms
  /\ gpu = ZeroGpu

\* the displacement sources the model constructs with
DisplacementSources == {None, "cnvK"}

\* new ImageTransition( params ).  Without a canvas, getWebglContext calls
\* getContext of undefined, which throws a TypeError out of the constructor.
Construct ==
  /\ phase = "unbuilt"
  /\ \E canvasGiven \in BOOLEAN, w \in Sizes, h \in Sizes,
        sourceFrom \in Sources, sourceTo \in Sources,
        displacementSource \in DisplacementSources :
       /\ config' = [canvas |-> canvasGiven, displacementSource |-> displacementSource]
       /\ IF canvasGiven
          THEN /\ phase' = "live"
               /\ Apply(constructor(w, h, sourceFrom, sourceTo, displacementSource))
          ELSE /\ phase' = "TypeError"
               /\ UNCHANGED << progress, isEntering, isLeaving, hasUpdated, destroyed,
                               canvas, rafQueue, dispatched, rendered, scheduled,
                               ticksRun, tex, loaded, loadListeners, uniforms, gpu,
                               heard >>
  /\ lastOp' = "new"
  /\ lastCb' = NoCb
  /\ UNCHANGED << now, frame, anim, endListener, conv, evVars >>

SetFromImage ==
  \E sourceFrom \in Sources :
    /\ Call("setFromImage", setFromImage(Self, sourceFrom))
    /\ UNCHANGED anim

SetToImage ==
  \E sourceTo \in Sources :
    /\ Call("setToImage", setToImage(Self, sourceTo))
    /\ UNCHANGED anim

\* an image element that was loading fires 'load'
Load ==
  \E image \in ImageElements \ loaded :
    /\ Call("load", load(Self, image))
    /\ UNCHANGED anim

NextTex ==
  \/ Construct
  \/ SetFromImage
  \/ SetToImage
  \/ Load
  \/ SetSize
  \/ Destroy

SpecTex == InitTex /\ [][NextTex]_vars

----------------------------------------------------------------------------
\* The EventDispatcher on its own, with listeners that call nothing back.

\* the variables of the controller, which these calls leave alone
InitEv ==
  /\ InitDocument
  /\ InitEvents
  /\ loaded = {}
  /\ phase = "live"
  /\ endListener = "none"
  /\ conv = NoConv
  /\ config = [canvas |-> TRUE, displacementSource |-> None]
  /\ Holds(constructor(1, 1, None, None, None))

\* the sequence ls followed by x unless x is in it
Noted(ls, x) == IF Includes(ls, x) THEN ls ELSE Append(ls, x)

AddEventListener ==
  \E type \in EvTypes, listener \in Listeners :
    LET registered == evListeners[type] # Undefined /\ Includes(evListeners[type], listener)
    IN  /\ evListeners' = addEventListener(evListeners, type, listener)
        /\ evOp' = [op |-> "add", type |-> type, listener |-> listener]
        /\ evFirst' = [evFirst EXCEPT ![type] = Noted(@, listener)]
        /\ evRepeated' = [evRepeated EXCEPT
                            ![type] = IF registered THEN @ \cup {listener} ELSE @]
        /\ evOrder' = [evOrder EXCEPT ![type] = Noted(@, listener)]
        /\ UNCHANGED << evCalled, ctlVars >>

RemoveEventListener ==
  \E type \in EvTypes, listener \in Listeners :
    /\ evListeners' = removeEventListener(evListeners, type, listener)
    /\ evOp' = [op |-> "remove", type |-> type, listener |-> listener]
    /\ evRepeated' = [evRepeated EXCEPT ![type] = @ \ {listener}]
    /\ evOrder' = [evOrder EXCEPT ![type] = SelectSeq(@, LAMBDA l : l # listener)]
    /\ UNCHANGED << evCalled, evFirst, ctlVars >>

DispatchEvent ==
  \E type \in EvTypes :
    /\ evCalled' = dispatchEvent(evListeners, type)
    /\ evOp' = [op |-> "dispatch", type |-> type, listener |-> "f"]
    /\ UNCHANGED << evListeners, evFirst, evRepeated, evOrder, ctlVars >>

NextEv ==
  \/ AddEventListener
  \/ RemoveEventListener
  \/ DispatchEvent

SpecEv == InitEv /\ [][NextEv]_vars

----------------------------------------------------------------------------
\* Animation together with texture updates: a controller whose image
\* elements have all loaded, so that setFromImage uploads at once.

InitUpd ==
  /\ InitDocument
  /\ InitEvents
  /\ loaded = ImageElements
  /\ phase = "live"
  /\ endListener = "none"
  /\ conv = NoConv
  /\ config = [canvas |-> TRUE, displacementSource |-> None]
  /\ \E w \in Sizes, h \in Sizes : Holds(constructor(w, h, None, None, None))

NextUpd ==
  \/ Enter
  \/ Leave
  \/ Stop
  \/ Render
  \/ SetSize
  \/ SetFromImage
  \/ Advance
  \/ BeginFrame
  \/ RunCallback

SpecUpd == InitUpd /\ [][NextUpd]_vars

----------------------------------------------------------------------------
\* Animations left to run: calls are made while a whole duration still fits
\* before the clock of the model stops, then only time and frames go on.

CallWindow == now + Duration <= MaxSteps * Quantum

EnterInTime == CallWindow /\ Enter

LeaveInTime == CallWindow /\ Leave

StopInTime == CallWindow /\ Stop

NextLive ==
  \/ EnterInTime
  \/ LeaveInTime
  \/ StopInTime
  \/ Advance
  \/ BeginFrame
  \/ RunCallback

\* the browser calls the callbacks it was given, frame after frame, and time
\* does not stand still
SpecLive ==
  /\ Init
  /\ [][NextLive]_vars
  /\ SF_vars(Advance)
  /\ WF_vars(BeginFrame)
  /\ WF_vars(RunCallback)

----------------------------------------------------------------------------
\* A transitionEnd listener that calls enter() or leave() of the controller.

InitRe ==
  /\ InitDocument
  /\ InitEvents
  /\ loaded = {}
  /\ phase = "live"
  /\ endListener \in {"enter", "leave"}
  /\ conv = NoConv
  /\ config = [canvas |-> TRUE, displacementSource |-> None]
  /\ Holds(constructor(1, 1, None, None, None))

NextRe ==
  \/ Enter
  \/ Leave
  \/ Stop
  \/ Reset
  \/ Advance
  \/ BeginFrame
  \/ RunCallback

SpecRe == InitRe /\ [][NextRe]_vars

----------------------------------------------------------------------------
\* ImageTransition.convertPowerOfTwo, a static function of its argument and
\* of MAX_TEXTURE_SIZE.

\* Math.pow( 2, Math.ceil( Math.log( value ) / Math.LN2 ) ) for value >= 1:
\* the smallest power of two that is not below value
RECURSIVE CeilFrom(_, _)
CeilFrom(power, value) == IF power >= value THEN power ELSE CeilFrom(2 * power, value)

ceilPowerOfTwo(value) == CeilFrom(1, value)

\* a & b for non-negative integers
RECURSIVE BitAnd(_, _)
BitAnd(a, b) ==
  IF a = 0 \/ b = 0 THEN 0
  ELSE (a % 2) * (b % 2) + 2 * BitAnd(a \div 2, b \div 2)

\* ( value & ( value - 1 ) ) === 0 && value !== 0
isPowerOfTwo(value) == value # 0 /\ BitAnd(value, value - 1) = 0

\* gl.getParameter( gl.MAX_TEXTURE_SIZE ) of the devices of the model
MaxTextureSizes == {4, 8}

\* image is [kind, width, height]: an image element with its naturalWidth and
\* naturalHeight (0 when it has not loaded) or a canvas with its size
convertPowerOfTwo(image, MAX_TEXTURE_SIZE) ==
  IF image.kind = "image" /\ image.width = 0 THEN image
  ELSE LET width == Min(ceilPowerOfTwo(image.width), MAX_TEXTURE_SIZE)
           height == Min(ceilPowerOfTwo(image.height), MAX_TEXTURE_SIZE)
       IN  IF isPowerOfTwo(width) /\ isPowerOfTwo(height) THEN image
           ELSE [kind |-> "canvas", width |-> width, height |-> height]

ConvArgument == [kind |-> conv.kind, width |-> conv.width, height |-> conv.height]

InitPow ==
  /\ InitDocument
  /\ InitEvents
  /\ loaded = {}
  /\ phase = "live"
  /\ endListener = "none"
  /\ config = [canvas |-> TRUE, displacementSource |-> None]
  /\ Holds(constructor(1, 1, None, None, None))
  /\ \E kind \in {"image", "canvas"}, width \in 0..MaxDim, height \in 0..MaxDim,
        max \in MaxTextureSizes :
       /\ (width = 0 \/ height = 0) => (kind = "image" /\ width = 0 /\ height = 0)
       /\ conv = [kind |-> kind, width |-> width, height |-> height, max |-> max,
                  result |-> NoConv.result]

ConvertPowerOfTwo ==
  /\ conv.result.kind = "none"
  /\ conv' = [conv EXCEPT !.result = convertPowerOfTwo(ConvArgument, conv.max)]
  /\ UNCHANGED << progress, isEntering, isLeaving, hasUpdated, destroyed, canvas, now,
                  rafQueue, frame, lastOp, lastCb, dispatched, rendered, scheduled,
                  ticksRun, anim, phase, config, tex, loaded, loadListeners,
                  uniforms, gpu, endListener, heard, evVars >>

NextPow == ConvertPowerOfTwo

SpecPow == InitPow /\ [][NextPow]_vars

----------------------------------------------------------------------------

TypeOK ==
  /\ progress \in Int
  /\ isEntering \in BOOLEAN
  /\ isLeaving \in BOOLEAN
  /\ hasUpdated \in BOOLEAN
  /\ destroyed \in BOOLEAN
  /\ canvas \in Sizes \X Sizes
  /\ now \in 0..(MaxSteps * Quantum)
  /\ Len(rafQueue) + Len(frame) <= MaxQueue
  /\ phase \in {"unbuilt", "live", "TypeError"}
  /\ config.canvas \in BOOLEAN
  /\ loaded \subseteq ImageElements
  /\ \A n \in TextureNames : tex[n].image \in Sources

----------------------------------------------------------------------------
\* What a step did, read off the state before it (unprimed) and after it
\* (primed).

Active == isEntering \/ isLeaving

EnterTickRan ==
  /\ ticksRun' = 1
  /\ \/ lastOp' = "enter"
     \/ lastOp' = "callback" /\ lastCb'.kind = "enter"

LeaveTickRan ==
  /\ ticksRun' = 1
  /\ \/ lastOp' = "leave"
     \/ lastOp' = "callback" /\ lastCb'.kind = "leave"

\* a tick brought progress to the boundary of its mode
ReachedBoundary ==
  \/ EnterTickRan /\ progress' = Duration
  \/ LeaveTickRan /\ progress' = 0

StoppedWhileActive == lastOp' \in {"stop", "reset"} /\ Active

EnterNoOpCase == lastOp' = "enter" /\ (isEntering \/ progress = Duration)
LeaveNoOpCase == lastOp' = "leave" /\ (isLeaving \/ progress = 0)

ControllerUnchanged ==
  UNCHANGED << progress, isEntering, isLeaving, hasUpdated, destroyed, canvas,
               rafQueue >>

----------------------------------------------------------------------------

\* C1: in every step, exactly one transitionEnd is dispatched when a tick
\* brings progress to the boundary of its mode (1 while Entering, 0 while
\* Leaving) or when stop() or reset() is called while a mode is active, and
\* none is dispatched in any other step.
C1_TransitionEndExactlyOnce ==
  [][dispatched' = IF ReachedBoundary \/ StoppedWhileActive THEN 1 ELSE 0]_vars

\* a frame callback has just completed an enter animation and dispatched
C1_Witness ==
  /\ lastOp = "callback"
  /\ lastCb.kind = "enter"
  /\ progress = Duration
  /\ dispatched = 1

\* C2: Entering and Leaving are never both true.
C2_AtMostOneMode == ~(isEntering /\ isLeaving)

\* leave() has just flipped a running enter animation
C2_Witness ==
  /\ lastOp = "leave"
  /\ anim.kind = "leave"
  /\ anim.flip
  /\ isLeaving

\* C3: progress lies in [0,1] (here 0..Duration, progress being stored
\* multiplied by the positive duration).
C3_ProgressInUnitInterval == 0 <= progress /\ progress <= Duration

\* a tick whose elapsed time exceeds the duration has just run
C3_Witness ==
  /\ lastOp = "callback"
  /\ ticksRun = 1
  /\ now - lastCb.startTime + lastCb.startElapsedTime > Duration
  /\ progress \in {0, Duration}

\* C4: enter() while Entering or at progress 1, and leave() while Leaving or
\* at progress 0, change nothing: progress, the mode flags and the rest of the
\* controller are unchanged, no tick body runs, nothing is scheduled, nothing
\* is drawn and no transitionEnd is dispatched.
C4_EnterLeaveNoOp ==
  [][(EnterNoOpCase \/ LeaveNoOpCase) =>
       /\ ControllerUnchanged
       /\ ticksRun' = 0
       /\ scheduled' = 0
       /\ rendered' = 0
       /\ dispatched' = 0]_vars

\* enter() has just been called on a live controller at progress 1
C4_Witness ==
  /\ lastOp = "enter"
  /\ progress = Duration
  /\ ~isEntering
  /\ ~destroyed
  /\ ticksRun = 0

\* where an animation stands: its progress line cut to [0,1]
UnitInterval(x) == IF x < 0 THEN 0 ELSE IF x > Duration THEN Duration ELSE x

\* progress at time t of an enter animation started at t0 from p0:
\* (t - t0 + duration * p0) / duration, and of a leave animation:
\* 1 - (t - t0 + duration * (1 - p0)) / duration, both times duration
EnterLine(t0, p0, t) == UnitInterval(t - t0 + p0)
LeaveLine(t0, p0, t) == UnitInterval(Duration - (t - t0 + (Duration - p0)))

Midway == 0 < progress /\ progress < Duration

FlipCase ==
  \/ lastOp' = "leave" /\ isEntering /\ Midway
  \/ lastOp' = "enter" /\ isLeaving /\ Midway

\* C5: leave() while Entering, or enter() while Leaving, at a progress p
\* strictly between 0 and 1 flips the mode at once and leaves progress at p;
\* every tick that runs after the flip, until the next effective call, puts
\* progress on the line that starts from p at the time of the flip (no jump,
\* no restart).
C5_FlipContinuity ==
  /\ [][FlipCase =>
          /\ progress' = progress
          /\ isEntering' = ~isEntering
          /\ isLeaving' = ~isLeaving]_vars
  /\ [][(anim.flip /\ anim' = anim /\ lastOp' = "callback" /\ ticksRun' = 1) =>
          progress' = IF anim.kind = "enter"
                      THEN EnterLine(anim.t0, anim.p0, now)
                      ELSE LeaveLine(anim.t0, anim.p0, now)]_vars

\* C6: stop() while a mode is active clears both flags, keeps progress and
\* dispatches one transitionEnd; stop() while Idle changes nothing and
\* dispatches nothing.
C6_Stop ==
  [][lastOp' = "stop" =>
       IF Active
       THEN /\ ~isEntering'
            /\ ~isLeaving'
            /\ progress' = progress
            /\ dispatched' = 1
       ELSE /\ ControllerUnchanged
            /\ dispatched' = 0]_vars

\* stop() has just frozen an animation midway
C6_Witness ==
  /\ lastOp = "stop"
  /\ dispatched = 1
  /\ Midway
  /\ ~Active

ResetOutcome ==
  /\ progress' = 0
  /\ ~isEntering'
  /\ ~isLeaving'
  /\ dispatched' = IF Active THEN 1 ELSE 0

TickT0 == IF lastOp' = "callback" THEN lastCb'.startTime ELSE now
TickP0 == IF lastOp' = "callback" THEN lastCb'.p0 ELSE progress

\* C8: a tick of an animation started by enter() at t0 from p0 sets progress
\* to clamp((t - t0 + duration*p0)/duration, 0, 1), one started by leave() to
\* clamp(1 - (t - t0 + duration*(1 - p0))/duration, 0, 1); with duration 2000
\* and enter() from 0, the tick at t0+1000 gives 1/2 and the one at t0+2000
\* gives 1.
C8_TickFormula ==
  /\ [][EnterTickRan => progress' = EnterLine(TickT0, TickP0, now')]_vars
  /\ [][LeaveTickRan => progress' = LeaveLine(TickT0, TickP0, now')]_vars
  /\ [][(EnterTickRan /\ Duration = 2000 /\ TickP0 = 0) =>
          /\ now' = TickT0 + 1000 => 2 * progress' = Duration
          /\ now' = TickT0 + 2000 => progress' = Duration]_vars

\* the tick at t0+1000 of an enter() from progress 0 has just run
C8_Witness ==
  /\ lastOp = "callback"
  /\ lastCb.kind = "enter"
  /\ ticksRun = 1
  /\ lastCb.p0 = 0
  /\ now = lastCb.startTime + 1000
  /\ 2 * progress = Duration

\* C9: a tick that brings progress to the boundary of its mode clears the
\* mode flag, dispatches transitionEnd and schedules no further tick; a tick
\* schedules the next one only when the boundary has not been reached.
C9_BoundaryEndsTicking ==
  /\ [][ReachedBoundary =>
          /\ EnterTickRan => ~isEntering'
          /\ LeaveTickRan => ~isLeaving'
          /\ dispatched' = 1
          /\ scheduled' = 0]_vars
  /\ [][(ticksRun' = 1 /\ scheduled' > 0) => ~ReachedBoundary]_vars

\* C10: in the steps frame callbacks make, progress never moves away from
\* the boundary of the active mode: it does not decrease while Entering and
\* does not increase while Leaving.
C10_MonotoneBetweenCalls ==
  [][lastOp' = "callback" =>
       /\ (isEntering /\ isEntering') => progress' >= progress
       /\ (isLeaving /\ isLeaving') => progress' <= progress]_vars


PublicOps == {"enter", "leave", "stop", "reset", "setSize", "render",
              "setFromImage", "setToImage"}

\* the step changed nothing of the controller, dispatched and scheduled
\* nothing, drew nothing and made no other GPU call
NothingDone ==
  /\ ControllerUnchanged
  /\ UNCHANGED << tex, uniforms, loadListeners >>
  /\ dispatched' = 0
  /\ scheduled' = 0
  /\ rendered' = 0
  /\ ticksRun' = 0
  /\ gpu' = ZeroGpu

\* C11: once destroy() has been called, a public operation changes nothing
\* of the controller, dispatches nothing, schedules nothing and makes no GPU
\* call.
C11_NoOpAfterDestroy ==
  [][(destroyed /\ lastOp' \in PublicOps) => NothingDone]_vars

\* C12: setSize( w, h ) with the current dimensions does nothing (no
\* viewport update, no UV scale push, no deferred render); with other
\* dimensions it sets the canvas size, the viewport and the UV scale for the
\* new size.
C12_SetSize ==
  [][lastOp' = "setSize" =>
       IF canvas' = canvas
       THEN NothingDone
       ELSE /\ gpu'.viewports = 1
            /\ gpu'.uvPushes = 1
            /\ uniforms'.uvScale = uvScale(Self)']_vars

\* setSize() was called with the current dimensions in a state where a
\* resize schedules the deferred render
C12_Witness ==
  /\ lastOp = "setSize"
  /\ gpu.viewports = 0
  /\ ~hasUpdated
  /\ ~Active
  /\ ~destroyed
  /\ rafQueue = <<>>

\* C13: the two "absent" flags of the program say which of the `from` and
\* `to` sources is unset, after construction and after every later call.
C13_AbsentFlags ==
  phase = "live" =>
    /\ uniforms.disableFromImage <=> (tex["from"].image = None)
    /\ uniforms.disableToImage <=> (tex["to"].image = None)

\* constructed with a displacement source only
C13_Witness ==
  /\ phase = "live"
  /\ lastOp = "new"
  /\ config.displacementSource # None
  /\ tex["from"].image = None
  /\ tex["to"].image = None
  /\ uniforms.disableFromImage
  /\ uniforms.disableToImage

\* the source the UV scale is to be computed from, and its aspect: 1 without
\* a source, NaN for an image element that has no size yet
ScaleSource ==
  IF tex["from"].image # None THEN tex["from"].image ELSE tex["to"].image

MediaAspect ==
  IF ScaleSource = None THEN One
  ELSE Quotient(mediaSize(Self, ScaleSource)[1], mediaSize(Self, ScaleSource)[2])

CanvasAspect == Quotient(canvas[1], canvas[2])

Ratio == Quotient(MediaAspect[1] * CanvasAspect[2], MediaAspect[2] * CanvasAspect[1])

\* C14: after an effective setSize and after a texture's 'updated' event the
\* UV scale of the program is (1, ratio) when ratio < 1 and (1/ratio, 1)
\* otherwise, ratio being the aspect of the `from` source if set, else of the
\* `to` source, divided by the aspect of the canvas.
C14_UvScale ==
  (phase = "live" /\ (gpu.viewports > 0 \/ gpu.updated > 0)) =>
    uniforms.uvScale = IF LessThanOne(Ratio) THEN <<One, Ratio>>
                       ELSE <<Inverse(Ratio), One>>

\* a loaded 16:9 image as `from` on a square canvas: (9/16, 1)
C14_Witness ==
  /\ phase = "live"
  /\ gpu.updated > 0
  /\ tex["from"].image = "imgA"
  /\ "imgA" \in loaded
  /\ canvas[1] = canvas[2]
  /\ uniforms.uvScale = << <<9, 16>>, One >>

Count(array, x) == Cardinality({i \in 1..Len(array) : array[i] = x})

Registered(type) ==
  IF evListeners[type] = Undefined THEN <<>> ELSE evListeners[type]

\* C15: a listener is registered for a type at most once however often it
\* is added; a dispatch calls each registered listener once and no other; a
\* removeEventListener leaves no registration of the listener behind.
C15_IdempotentAdd ==
  /\ \A type \in EvTypes, l \in Listeners : Count(Registered(type), l) <= 1
  /\ evOp.op = "dispatch" =>
       \A l \in Listeners :
         Count(evCalled, l) = IF Includes(Registered(evOp.type), l) THEN 1 ELSE 0
  /\ evOp.op = "remove" => ~Includes(Registered(evOp.type), evOp.listener)

\* a dispatch after the only listener of the type was added more than once
C15_Witness ==
  /\ evOp.op = "dispatch"
  /\ \E l \in evRepeated[evOp.type] : evCalled = <<l>>

\* C16 as stated: a dispatch calls the registered listeners in the order in
\* which they were first registered.
C16_FirstRegistrationOrder ==
  evOp.op = "dispatch" =>
    evCalled = SelectSeq(evFirst[evOp.type],
                         LAMBDA l : Includes(Registered(evOp.type), l))

\* C16: a dispatch calls the registered listeners in the order of the
\* registrations they hold: a listener removed and added again is called
\* after those that stayed, the last-registered listener last.
C16_RegistrationOrder ==
  evOp.op = "dispatch" => evCalled = evOrder[evOp.type]

\* f, then g were registered, f was removed and registered again
C16_Witness ==
  /\ evOp.op = "dispatch"
  /\ evFirst[evOp.type] = <<"f", "g">>
  /\ evCalled = <<"g", "f">>

\* C17: a constructor called without a canvas or without a displacement
\* source throws, and there is no controller.
C17_ConfigurationError ==
  (phase # "unbuilt" /\ (~config.canvas \/ config.displacementSource = None)) =>
    phase # "live"

DeadTickCase ==
  /\ lastOp' = "callback"
  /\ \/ lastCb'.kind = "enter" /\ (destroyed \/ ~isEntering)
     \/ lastCb'.kind = "leave" /\ (destroyed \/ ~isLeaving)

\* C18: a tick that runs after destroy(), or while the flag of its own
\* animation is false, changes nothing, draws nothing, dispatches nothing
\* and does not schedule itself again.
C18_DeadTickNoWork == [][DeadTickCase => NothingDone]_vars

\* a tick of enter() ran on a destroyed controller whose flag was set again
C18_Witness ==
  /\ lastOp = "callback"
  /\ lastCb.kind = "enter"
  /\ destroyed
  /\ isEntering
  /\ ticksRun = 0
  /\ rendered = 0

\* C19: a 'load' that arrives after destroy() makes no GPU call on a deleted
\* texture (no bind, no upload) and does not run _updateTexture.
C19_LoadAfterDestroy ==
  (lastOp = "load" /\ destroyed) =>
    /\ gpu.deadCalls = 0
    /\ gpu.uploads = 0
    /\ gpu.updateTextures = 0

PendingCallbacks == rafQueue \o frame

PendingRenders ==
  Cardinality({i \in 1..Len(PendingCallbacks) : PendingCallbacks[i].kind = "render"})

\* C20: at most one deferred re-render callback is pending.
C20_OneDeferredRender == PendingRenders <= 1

\* C25: an animation started by an effective enter() at time t0 from
\* progress p0, with no leave/stop/reset/destroy after it, is not at progress
\* 1 (where its tick fires transitionEnd) before t0 + duration * (1 - p0);
\* one started by leave() is not at progress 0 before t0 + duration * p0.
C25_NotBeforeDue ==
  /\ (anim.kind = "enter" /\ progress = Duration) =>
       now >= anim.t0 + (Duration - anim.p0)
  /\ (anim.kind = "leave" /\ progress = 0) =>
       now >= anim.t0 + anim.p0

\* C22: a call of Texture.setImage dispatches 'updated' exactly once, for an
\* unset source, a loaded one and one that is still loading.
C22_UpdatedOncePerSetImage ==
  lastOp \in {"setFromImage", "setToImage"} => gpu.updated = 1

\* setImage was called with an image element that is still loading
C22_Witness ==
  /\ lastOp = "setFromImage"
  /\ tex["from"].image \in ImageElements \ loaded
  /\ gpu.updated = 1

\* the pixels a texture holds before any source was uploaded to it: the 1x1
\* black texel of the constructor or the 2x2 defaultImage canvas
Placeholders == {"black", "defaultImage"}

\* C23: a texture holds the pixels of its current source or a placeholder,
\* never those of an earlier source, and a placeholder when its source is
\* unset or has not loaded.
C23_PixelsOfCurrentSource ==
  phase = "live" =>
    \A n \in TextureNames :
      /\ tex[n].pixels \in Placeholders \/ tex[n].pixels = tex[n].image
      /\ (tex[n].image = None \/ tex[n].image \in ImageElements \ loaded) =>
           tex[n].pixels \in Placeholders

\* imgA fired 'load' after the `from` texture had moved on to imgB, which is
\* still loading: the closure registered on imgA ran
C23_Witness ==
  /\ lastOp = "load"
  /\ "imgA" \in loaded
  /\ "imgB" \notin loaded
  /\ tex["from"].image = "imgB"
  /\ gpu.setImages["from"] > 0
  /\ tex["from"].pixels = "defaultImage"

\* C24: when an image element fires 'load', a texture that holds it uploads
\* it once and dispatches 'updated' once (each setImage call does both once),
\* however often the element was assigned before.
C24_OneShotOnLoad ==
  lastOp = "load" =>
    \A n \in TextureNames :
      (tex[n].image \in ImageElements /\ tex[n].pixels = tex[n].image) =>
        gpu.setImages[n] <= 1

\* a step registered a deferred re-render
RenderScheduled == PendingRenders' > PendingRenders

\* C21: a deferred re-render is scheduled only while neither mode flag is
\* set; a resize or a texture update during an animation schedules none.
C21_DeferredOnlyWhenIdle == [][RenderScheduled => (~Active /\ ~Active')]_vars

\* setFromImage() during an animation, in a state where the debounce flag
\* alone would have let the re-render be scheduled
C21_Witness ==
  /\ lastOp = "setFromImage"
  /\ Active
  /\ ~hasUpdated
  /\ gpu.updated = 1
  /\ scheduled = 0

\* a texture update or an effective resize on an idle, live controller
IdleTrigger ==
  /\ ~Active
  /\ ~destroyed
  /\ \/ lastOp' = "setFromImage"
     \/ lastOp' = "setSize" /\ canvas' # canvas

\* C26: after a texture update or an effective resize on an idle, live
\* controller a render is pending for the next frame, from the state right
\* after construction on.
C26_RenderByNextFrame == [][IdleTrigger => PendingRenders' >= 1]_vars

Ticks(callbacks) ==
  {i \in 1..Len(callbacks) : callbacks[i].kind \in {"enter", "leave"}}

\* C27: once no more calls are made, an animation that is active ends by a
\* tick at the boundary of its mode, with one transitionEnd, and in the end
\* the controller is idle and no tick is scheduled.
C27_AnimationsEnd ==
  /\ (isEntering /\ ~CallWindow) ~>
       (lastOp = "callback" /\ ~Active /\ progress = Duration /\ dispatched = 1)
  /\ (isLeaving /\ ~CallWindow) ~>
       (lastOp = "callback" /\ ~Active /\ progress = 0 /\ dispatched = 1)
  /\ <>[](~Active /\ Ticks(PendingCallbacks) = {})

\* the last tick of an enter() that ran to its end has returned at its guard
C27_Witness ==
  /\ lastOp = "callback"
  /\ lastCb.kind = "enter"
  /\ ~CallWindow
  /\ ~Active
  /\ progress = Duration
  /\ PendingCallbacks = <<>>

\* C28: when the transitionEnd listener is called both mode flags are
\* false, and what an effective enter() or leave() call of the listener
\* left (the flags and the progress) is what the controller has when the
\* dispatching tick, stop() or reset() returns.
C28_ListenerCallStands ==
  heard.invoked =>
    /\ heard.flags = <<FALSE, FALSE>>
    /\ heard.called => <<isEntering, isLeaving, progress>> = heard.left

\* C29: convertPowerOfTwo returns a source with power-of-two sides, each the
\* smallest power of two not below the side of its argument, capped at
\* MAX_TEXTURE_SIZE, and its argument itself when both sides are powers of
\* two already.
C29_ConvertPowerOfTwo ==
  (conv.result.kind # "none" /\ conv.width # 0) =>
    IF isPowerOfTwo(conv.width) /\ isPowerOfTwo(conv.height)
    THEN conv.result = ConvArgument
    ELSE /\ conv.result.width = Min(ceilPowerOfTwo(conv.width), conv.max)
         /\ conv.result.height = Min(ceilPowerOfTwo(conv.height), conv.max)
         /\ isPowerOfTwo(conv.result.width)
         /\ isPowerOfTwo(conv.result.height)

====
